---- MODULE Spec2Model ----
(***************************************************************************)
(* Model of the quick-command pipeline of ethers-wallet-manager-cli:       *)
(* the alias registry (ContractManager), the template registry and the     *)
(* template expander (QuickCommandManager), and the tokenizer and the      *)
(* invocation reconstructor (WalletManager.parseCommandLine /              *)
(* parseQuickCommand).                                                     *)
(*                                                                         *)
(* A JavaScript string is modelled as a sequence of one-character strings, *)
(* so that startsWith, length, regular-expression replacement and the      *)
(* character scan of the tokenizer are computed as the code computes them. *)
(***************************************************************************)
EXTENDS Integers, Sequences, FiniteSets, TLC

VARIABLES
    contractsFile,         \* contracts.json: the "contracts" mapping on disk
    contractsReadable,     \* whether contracts.json can be read and parsed
    defaultContracts,      \* ContractManager.defaultContracts.contracts (in memory)
    commandsFile,          \* quick-commands.json: the "commands" mapping on disk
    commandsReadable,      \* whether quick-commands.json can be read and parsed
    defaultQuickCommands,  \* QuickCommandManager.defaultQuickCommands.commands
    op,                    \* the operation performed by the last step
    inp,                   \* its inputs
    out,                   \* its outcome (return value or thrown error)
    wallets,               \* WalletManager.wallets: alias -> loaded wallet
    walletInfo,            \* WalletManager.walletInfo: alias -> WalletInfo
    keystoreDir,           \* WalletManager.keystoreDir
    configFile,            \* config.json: keystoreDir and defaultAccount
    walletInfoFiles,       \* wallet-info.json of each keystore directory
    keystoreFiles,         \* the keystore files, and the number of wallets registered
    pipeline,              \* position of WalletManager.executeQuickCommand
    processes,             \* two processes that add to a registry, step by step
    exportFiles            \* the documents written by the export operations

vars == <<contractsFile, contractsReadable, defaultContracts,
          commandsFile, commandsReadable, defaultQuickCommands, op, inp, out,
          wallets, walletInfo, keystoreDir, configFile, walletInfoFiles,
          keystoreFiles, pipeline, processes, exportFiles>>

contractVars == <<contractsFile, contractsReadable, defaultContracts>>
commandVars == <<commandsFile, commandsReadable, defaultQuickCommands>>
walletVars == <<wallets, walletInfo, keystoreDir, configFile, walletInfoFiles,
                keystoreFiles>>
raceVars == <<processes, exportFiles>>
managerVars == <<walletVars, pipeline, raceVars>>

(***************************************************************************)
(* Bounds of the model.                                                    *)
(***************************************************************************)
MaxBody == 4
MaxParams == 2
MaxRest == 3

(***************************************************************************)
(* JavaScript values and strings.                                          *)
(***************************************************************************)
\* The value undefined; no string equals it (characters have length one).
Undefined == <<"<undefined>">>

\* An empty mapping ({} in the persisted documents).
EmptyMap == [k \in {} |-> Undefined]

SeqsUpTo(S, n) == UNION {[1..k -> S] : k \in 0..n}

Rep(c, n) == [i \in 1..n |-> c]

LowerLetters == {"a", "b", "c", "d", "e", "f", "g", "h", "i", "j", "k", "l", "m",
                 "n", "o", "p", "q", "r", "s", "t", "u", "v", "w", "x", "y", "z"}
UpperLetters == {"A", "B", "C", "D", "E", "F", "G", "H", "I", "J", "K", "L", "M",
                 "N", "O", "P", "Q", "R", "S", "T", "U", "V", "W", "X", "Y", "Z"}
Digits == {"0", "1", "2", "3", "4", "5", "6", "7", "8", "9"}
HexChars == Digits \cup {"a", "b", "c", "d", "e", "f", "A", "B", "C", "D", "E", "F"}

\* s.startsWith(pat) with pat beginning at index i of s (1-based).
StartsWithAt(s, i, pat) ==
    /\ i + Len(pat) - 1 <= Len(s)
    /\ \A k \in 1..Len(pat) : s[i + k - 1] = pat[k]

startsWith(s, pat) == StartsWithAt(s, 1, pat)

\* Truthiness of a string-or-undefined value: undefined and "" are falsy.
TruthyStr(s) == s # Undefined /\ s # <<>>

\* Words used by the code and by the inputs below.
W_call == <<"c", "a", "l", "l">>
W_send == <<"s", "e", "n", "d">>
W_token == <<"t", "o", "k", "e", "n">>
W_constructor == <<"c", "o", "n", "s", "t", "r", "u", "c", "t", "o", "r">>
W_mint == <<"m", "i", "n", "t">>
W_nope == <<"n", "o", "p", "e">>
W_MyToken == <<"M", "y", "T", "o", "k", "e", "n">>
W_rpc_url == <<"-", "-", "r", "p", "c", "-", "u", "r", "l">>
W_gas_limit == <<"-", "-", "g", "a", "s", "-", "l", "i", "m", "i", "t">>
W_gas_price == <<"-", "-", "g", "a", "s", "-", "p", "r", "i", "c", "e">>
W_value == <<"-", "-", "v", "a", "l", "u", "e">>
W_wait == <<"-", "-", "w", "a", "i", "t">>
W_my_wallet == <<"m", "y", "-", "w", "a", "l", "l", "e", "t">>
W_token_alias == <<"t", "o", "k", "e", "n", "-", "a", "l", "i", "a", "s">>
W_transfer == <<"t", "r", "a", "n", "s", "f", "e", "r", "(", "a", "d", "d", "r", "e",
                "s", "s", ",", "u", "i", "n", "t", "2", "5", "6", ")">>
W_0xabc == <<"0", "x", "a", "b", "c">>
W_1000 == <<"1", "0", "0", "0">>
W_http_x == <<"h", "t", "t", "p", ":", "/", "/", "x">>

(***************************************************************************)
(* Property lookup on an object parsed from JSON.  obj[key] yields the own *)
(* property when there is one and otherwise whatever Object.prototype      *)
(* carries under that key (constructor, toString, ...), which is a truthy  *)
(* function without the fields of an entry.                                *)
(***************************************************************************)
ObjectPrototypeKeys == {W_constructor}

HasOwn(obj, key) == key \in DOMAIN obj

\* key in obj
In(obj, key) == HasOwn(obj, key) \/ key \in ObjectPrototypeKeys

\* Truthiness of obj[key]
Truthy(obj, key) == In(obj, key)

\* obj[key].field
Field(obj, key, field) ==
    IF HasOwn(obj, key) /\ field \in DOMAIN obj[key] THEN obj[key][field]
    ELSE Undefined

\* delete obj[key]
Delete(obj, key) == [k \in DOMAIN obj \ {key} |-> obj[k]]

\* obj[key] = value
Assign(obj, key, value) ==
    [k \in DOMAIN obj \cup {key} |-> IF k = key THEN value ELSE obj[k]]

(***************************************************************************)
(* Outcomes of an operation.                                               *)
(***************************************************************************)
Returned(v) ==
    [kind |-> "return", value |-> v, error |-> "", expected |-> 0, actual |-> 0]

Thrown(e) ==
    [kind |-> "throw", value |-> Undefined, error |-> e, expected |-> 0, actual |-> 0]

ThrownArity(e, n, m) ==
    [kind |-> "throw", value |-> Undefined, error |-> e, expected |-> n, actual |-> m]

(***************************************************************************)
(* The state of a WalletManager after construction on a fresh              *)
(* configuration directory.                                                *)
(***************************************************************************)
\* keystoreDir of the default configuration, and another directory
\* Directories are paths relative to the configuration directory, as
\* sequences of segments.
DefaultKeystoreDir == <<"keystores">>
OtherKeystoreDir == <<"my-ethereum-wallets">>
KeystoreDirs == {DefaultKeystoreDir, OtherKeystoreDir}

\* A wallet-info.json that does not exist.
NoFile == [exists |-> FALSE, data |-> EmptyMap]

\* executeQuickCommand is not running.
Processes == {1, 2}
ProcessIdle == [pc |-> "idle", registry |-> "", alias |-> <<>>, doc |-> EmptyMap, turn |-> 0]
NoExports == [contracts |-> NoFile, commands |-> NoFile]
PipelineIdle ==
    [pc |-> "idle", name |-> <<>>, args |-> <<>>, expanded |-> Undefined,
     parts |-> Undefined, contract |-> Undefined, calls |-> 0,
     started |-> 0, settled |-> 0, result |-> Returned(Undefined)]

InitWalletManager ==
    /\ wallets = EmptyMap
    /\ walletInfo = EmptyMap
    /\ keystoreDir = DefaultKeystoreDir
    /\ configFile = [keystoreDir |-> DefaultKeystoreDir,
                     defaultAccount |-> Undefined]
    /\ walletInfoFiles = [d \in KeystoreDirs |-> NoFile]
    /\ keystoreFiles = [created |-> 0, files |-> EmptyMap]
    /\ pipeline = PipelineIdle
    /\ processes = [p \in Processes |-> ProcessIdle]
    /\ exportFiles = NoExports

(***************************************************************************)
(* QuickCommandManager: reading the template registry.                     *)
(***************************************************************************)
\* getQuickCommands(): the parsed file, or the in-memory default document
\* when the file cannot be read.
getQuickCommands ==
    IF commandsReadable THEN commandsFile ELSE defaultQuickCommands

(***************************************************************************)
(* QuickCommandManager.executeQuickCommand: template expansion.            *)
(***************************************************************************)
\* The replacement text of String.prototype.replace for one match, for a
\* pattern without capture groups: $$ inserts $, $& the matched text,
\* $` the text before the match, $' the text after it; every other
\* character, a lone $ included, is inserted as it is.
RECURSIVE GetSubstitution(_, _, _, _)
GetSubstitution(rep, matched, before, after) ==
    IF rep = <<>> THEN <<>>
    ELSE IF Head(rep) = "$" /\ Len(rep) >= 2 /\ rep[2] \in {"$", "&", "`", "'"}
    THEN (CASE rep[2] = "$" -> <<"$">>
            [] rep[2] = "&" -> matched
            [] rep[2] = "`" -> before
            [] rep[2] = "'" -> after)
         \o GetSubstitution(SubSeq(rep, 3, Len(rep)), matched, before, after)
    ELSE <<Head(rep)>> \o GetSubstitution(Tail(rep), matched, before, after)

\* s.replace(new RegExp("\\$" + param, "g"), rep) from index i on: every
\* non-overlapping occurrence of pat, scanning left to right.
RECURSIVE ReplaceFrom(_, _, _, _)
ReplaceFrom(s, i, pat, rep) ==
    IF i > Len(s) THEN <<>>
    ELSE IF StartsWithAt(s, i, pat)
    THEN GetSubstitution(rep, pat, SubSeq(s, 1, i - 1),
                         SubSeq(s, i + Len(pat), Len(s)))
         \o ReplaceFrom(s, i + Len(pat), pat, rep)
    ELSE <<s[i]>> \o ReplaceFrom(s, i + 1, pat, rep)

replace(s, pat, rep) == ReplaceFrom(s, 1, pat, rep)

\* command.parameters.forEach((param, index) => result = result.replace(...))
RECURSIVE forEachParameter(_, _, _, _)
forEachParameter(result, parameters, args, index) ==
    IF index > Len(parameters) THEN result
    ELSE forEachParameter(
             replace(result, <<"$">> \o parameters[index], args[index]),
             parameters, args, index + 1)

ArityCheckFewerOnly(args, parameters) == Len(args) < Len(parameters)

\* args.length !== command.parameters.length
ArityMismatch(args, parameters) == Len(args) # Len(parameters)

executeQuickCommand(name, args) ==
    LET commands == getQuickCommands IN
    IF ~Truthy(commands, name) THEN Thrown("NotFound")
    ELSE IF ~HasOwn(commands, name) THEN Thrown("TypeError")
    ELSE IF ArityMismatch(args, commands[name].parameters)
    THEN ThrownArity("ArityError", Len(commands[name].parameters), Len(args))
    ELSE Returned(forEachParameter(commands[name].template,
                                   commands[name].parameters, args, 1))

Do_executeQuickCommand(name, args) ==
    /\ op' = "executeQuickCommand"
    /\ inp' = [name |-> name, args |-> args]
    /\ out' = executeQuickCommand(name, args)
    /\ UNCHANGED <<contractVars, commandVars, managerVars>>

(***************************************************************************)
(* Specification of the expander: one stored template, drawn from the      *)
(* bounded sets below, expanded with every bounded argument list.          *)
(***************************************************************************)
BodyAlphabet == {"$", "a", "b", " "}

ParameterNames == {<<"a">>, <<"b">>}

ArgumentValues == {<<"x">>, <<"$", "b">>, <<"$", "&">>}

Distinct(s) == \A i, j \in 1..Len(s) : s[i] = s[j] => i = j

ParameterLists == {p \in SeqsUpTo(ParameterNames, MaxParams) : Distinct(p)}

ArgumentLists == SeqsUpTo(ArgumentValues, MaxParams + 1)

QuickCommand(name, parameters, template) ==
    [name |-> name, parameters |-> parameters, template |-> template]

InitExpand ==
    /\ contractsFile = EmptyMap
    /\ contractsReadable = TRUE
    /\ defaultContracts = EmptyMap
    /\ \E body \in SeqsUpTo(BodyAlphabet, MaxBody), ps \in ParameterLists :
           commandsFile = Assign(EmptyMap, W_mint, QuickCommand(W_mint, ps, body))
    /\ commandsReadable = TRUE
    /\ defaultQuickCommands = EmptyMap
    /\ op = "init"
    /\ inp = <<>>
    /\ out = Returned(Undefined)
    /\ InitWalletManager

\* One expansion per behaviour: the stored template is the input.
NextExpand ==
    /\ op = "init"
    /\ \E name \in {W_mint, W_nope}, args \in ArgumentLists :
           Do_executeQuickCommand(name, args)

SpecExpand == InitExpand /\ [][NextExpand]_vars

(***************************************************************************)
(* The expansion the specification describes: one left-to-right pass over  *)
(* the body in which a sigil followed by a whole identifier that is a      *)
(* parameter is replaced by the bound argument, inserted as it is.         *)
(***************************************************************************)
IdentStart == LowerLetters \cup UpperLetters \cup {"_"}
IdentChar == IdentStart \cup Digits

\* Length of the longest run of identifier characters of s starting at i.
RECURSIVE IdentRun(_, _)
IdentRun(s, i) ==
    IF i <= Len(s) /\ s[i] \in IdentChar THEN 1 + IdentRun(s, i + 1) ELSE 0

\* Length of the identifier of s starting at i (0 when there is none).
IdentLen(s, i) ==
    IF i <= Len(s) /\ s[i] \in IdentStart THEN IdentRun(s, i) ELSE 0

IndexOf(seq, x) == CHOOSE i \in 1..Len(seq) : seq[i] = x

RECURSIVE AnchoredExpandFrom(_, _, _, _)
AnchoredExpandFrom(body, i, parameters, args) ==
    IF i > Len(body) THEN <<>>
    ELSE LET n == IF body[i] = "$" THEN IdentLen(body, i + 1) ELSE 0
             id == SubSeq(body, i + 1, i + n)
         IN IF n > 0 /\ \E k \in 1..Len(parameters) : parameters[k] = id
            THEN args[IndexOf(parameters, id)]
                 \o AnchoredExpandFrom(body, i + 1 + n, parameters, args)
            ELSE <<body[i]>> \o AnchoredExpandFrom(body, i + 1, parameters, args)

AnchoredExpand(body, parameters, args) ==
    AnchoredExpandFrom(body, 1, parameters, args)

\* Every placeholder-like occurrence in the body that begins with the name
\* of a parameter is a placeholder of exactly that parameter.
NoLookAlike(body, parameters) ==
    \A i \in 1..Len(body), k \in 1..Len(parameters) :
        (body[i] = "$" /\ StartsWithAt(body, i + 1, parameters[k]))
            => IdentLen(body, i + 1) = Len(parameters[k])

\* The template an executeQuickCommand step was applied to, if stored.
Expanding == op = "executeQuickCommand" /\ HasOwn(commandsFile, inp.name)
ExpandedTemplate == commandsFile[inp.name]

\* C1: with as many arguments as parameters, the expansion is the body with
\* every whole placeholder $p of a parameter p replaced by the argument of
\* p and all other text, look-alike longer identifiers included, unchanged.
C1_ExpandReplacesWholePlaceholders ==
    (Expanding /\ Len(inp.args) = Len(ExpandedTemplate.parameters))
        => out = Returned(AnchoredExpand(ExpandedTemplate.template,
                                         ExpandedTemplate.parameters, inp.args))

\* C2: a call whose argument count differs from the template's parameter
\* count throws the arity error carrying the expected and the actual count,
\* returns no expanded string and leaves the template registry unchanged.
C2_ArityMismatchFails ==
    [][(/\ op' = "executeQuickCommand"
        /\ HasOwn(commandsFile, inp'.name)
        /\ Len(inp'.args) # Len(commandsFile[inp'.name].parameters))
       => (/\ out' = ThrownArity("ArityError",
                                 Len(commandsFile[inp'.name].parameters),
                                 Len(inp'.args))
           /\ out'.value = Undefined
           /\ commandVars' = commandVars)]_vars

\* C2 witness: a template with two parameters was called with three
\* arguments and the call failed with the arity error.
C2_Witness ==
    /\ Expanding
    /\ Len(ExpandedTemplate.parameters) = 2
    /\ Len(inp.args) = 3
    /\ out.error = "ArityError"

\* C3: expansion is a single pass with raw insertion: when the body holds no
\* look-alike longer identifier, the result is the body with each
\* placeholder replaced by exactly its argument, and inserted text is not
\* substituted again.
C3_SinglePassRawInsertion ==
    (/\ Expanding
     /\ Len(inp.args) = Len(ExpandedTemplate.parameters)
     /\ NoLookAlike(ExpandedTemplate.template, ExpandedTemplate.parameters))
        => out.value = AnchoredExpand(ExpandedTemplate.template,
                                      ExpandedTemplate.parameters, inp.args)

(***************************************************************************)
(* WalletManager.parseCommandLine: the tokenizer.                          *)
(***************************************************************************)
isQuoteChar_SingleOnly(char) == char = "'"

\* char === '"' || char === "'"
isQuoteChar(char) == char = "\"" \/ char = "'"

closesQuote_AnyQuote(st, char) == (char = "\"" \/ char = "'") /\ st.inQuotes

\* char === quoteChar && inQuotes
closesQuote(st, char) == char = st.quoteChar /\ st.inQuotes

\* One iteration of the for loop: the loop state after reading char.
\* quoteChar "" is the empty string of the code, which no character equals.
parseCommandLineChar(st, char) ==
    IF isQuoteChar(char) /\ ~st.inQuotes
    THEN [st EXCEPT !.inQuotes = TRUE, !.quoteChar = char]
    ELSE IF closesQuote(st, char)
    THEN [st EXCEPT !.inQuotes = FALSE, !.quoteChar = ""]
    ELSE IF char = " " /\ ~st.inQuotes
    THEN IF st.current # <<>>
         THEN [st EXCEPT !.args = Append(@, st.current), !.current = <<>>]
         ELSE st
    ELSE [st EXCEPT !.current = Append(@, char)]

\* The for loop over command[lo..hi], started in loop state st.  The
\* characters are read in order; the range is halved, and the state after
\* the first half evaluated before the second half is read (the guard of
\* the CASE, which always holds), only to keep the depth of the evaluation
\* logarithmic in the length of the command.
RECURSIVE parseCommandLineLoop(_, _, _, _)
parseCommandLineLoop(command, lo, hi, st) ==
    IF lo > hi THEN st
    ELSE IF lo = hi THEN parseCommandLineChar(st, command[lo])
    ELSE LET mid == (lo + hi) \div 2
             half == parseCommandLineLoop(command, lo, mid, st)
         IN CASE half.inQuotes \in BOOLEAN ->
                     parseCommandLineLoop(command, mid + 1, hi, half)

pushLast_ClosedOnly(st) ==
    IF st.current # <<>> /\ ~st.inQuotes THEN Append(st.args, st.current)
    ELSE st.args

\* if (current) { args.push(current); } return args;
pushLast(st) ==
    IF st.current # <<>> THEN Append(st.args, st.current) ELSE st.args

parseCommandLine(command) ==
    pushLast(parseCommandLineLoop(command, 1, Len(command),
                 [args |-> <<>>, current |-> <<>>,
                  inQuotes |-> FALSE, quoteChar |-> ""]))

Do_parseCommandLine(command) ==
    /\ op' = "parseCommandLine"
    /\ inp' = [command |-> command]
    /\ out' = Returned(parseCommandLine(command))
    /\ UNCHANGED <<contractVars, commandVars, managerVars>>

(***************************************************************************)
(* WalletManager.parseQuickCommand: the invocation reconstructor.          *)
(***************************************************************************)
FlagPrefix == <<"-", "-">>

isPositional_Any(part) == TRUE

\* !part.startsWith('--')
isPositional(part) == ~startsWith(part, FlagPrefix)

afterOption_NoSkip(i) == i + 1

\* i++ ("Skip next part") followed by the i++ of the loop
afterOption(i) == i + 2

\* The loop over remainingParts from index i on (1-based); acc holds args,
\* rpcUrl and options as assigned so far.
RECURSIVE scanRemainingParts(_, _, _)
scanRemainingParts(remainingParts, i, acc) ==
    IF i > Len(remainingParts) THEN acc
    ELSE LET part == remainingParts[i]
             hasNext == i + 1 <= Len(remainingParts)
         IN IF part = W_rpc_url /\ hasNext
            THEN scanRemainingParts(remainingParts, afterOption(i),
                     [acc EXCEPT !.rpcUrl = remainingParts[i + 1]])
            ELSE IF part = W_gas_limit /\ hasNext
            THEN scanRemainingParts(remainingParts, afterOption(i),
                     [acc EXCEPT !.options.gasLimit = remainingParts[i + 1]])
            ELSE IF part = W_gas_price /\ hasNext
            THEN scanRemainingParts(remainingParts, afterOption(i),
                     [acc EXCEPT !.options.gasPrice = remainingParts[i + 1]])
            ELSE IF part = W_value /\ hasNext
            THEN scanRemainingParts(remainingParts, afterOption(i),
                     [acc EXCEPT !.options.value = remainingParts[i + 1]])
            ELSE IF isPositional(part)
            THEN scanRemainingParts(remainingParts, i + 1,
                     [acc EXCEPT !.args = Append(@, part)])
            ELSE scanRemainingParts(remainingParts, i + 1, acc)

parseQuickCommand(command) ==
    LET parts == parseCommandLine(command) IN
    IF Len(parts) < 4 THEN Thrown("InvalidQuickCommandFormat")
    ELSE LET startIndex == IF parts[1] = W_call \/ parts[1] = W_send
                           THEN 1 ELSE 0
             remainingParts == SubSeq(parts, startIndex + 4, Len(parts))
             scanned == scanRemainingParts(remainingParts, 1,
                            [args |-> <<>>, rpcUrl |-> Undefined,
                             options |-> [gasLimit |-> Undefined,
                                          gasPrice |-> Undefined,
                                          value |-> Undefined]])
         IN Returned([alias |-> parts[startIndex + 1],
                      contractAddress |-> parts[startIndex + 2],
                      methodSignature |-> parts[startIndex + 3],
                      args |-> scanned.args,
                      rpcUrl |-> scanned.rpcUrl,
                      options |-> scanned.options])

Do_parseQuickCommand(command) ==
    /\ op' = "parseQuickCommand"
    /\ inp' = [command |-> command]
    /\ out' = parseQuickCommand(command)
    /\ UNCHANGED <<contractVars, commandVars, managerVars>>

(***************************************************************************)
(* Specification of the reconstructor: expanded texts made of an optional  *)
(* leading verb, up to three head tokens and a bounded tail of tokens.     *)
(***************************************************************************)
RECURSIVE Join(_)
Join(tokens) ==
    IF tokens = <<>> THEN <<>>
    ELSE IF Len(tokens) = 1 THEN tokens[1]
    ELSE tokens[1] \o <<" ">> \o Join(Tail(tokens))

\* The method signature is written in quotes, as in the documented usage.
HeadTokens == <<W_my_wallet, W_token, <<"\"", "m", "(", ")", "\"">> >>

VerbChoices == {<<>>, <<W_call>>, <<W_send>>}

RestTokens == {W_rpc_url, W_gas_limit, W_gas_price, W_value, W_wait,
               <<"-", "-">>, <<"x">>, <<"y">>}

\* The example of the specification's section 8.
ExampleCommand ==
    Join(<<W_call, W_my_wallet, W_token_alias,
           <<"\"">> \o W_transfer \o <<"\"">>, W_0xabc, W_1000,
           W_rpc_url, W_http_x, W_wait>>)

ParseCommands ==
    {Join(v \o SubSeq(HeadTokens, 1, n)) : v \in VerbChoices, n \in 0..2}
    \cup {Join(v \o HeadTokens \o r) :
              v \in VerbChoices, r \in SeqsUpTo(RestTokens, MaxRest)}
    \cup {ExampleCommand}

InitParse ==
    /\ contractsFile = EmptyMap
    /\ contractsReadable = TRUE
    /\ defaultContracts = EmptyMap
    /\ commandsFile = EmptyMap
    /\ commandsReadable = TRUE
    /\ defaultQuickCommands = EmptyMap
    /\ op = "init"
    /\ inp = <<>>
    /\ out = Returned(Undefined)
    /\ InitWalletManager

\* One reconstruction per behaviour: the expanded text is the input.
NextParse ==
    /\ op = "init"
    /\ \E command \in ParseCommands : Do_parseQuickCommand(command)

SpecParse == InitParse /\ [][NextParse]_vars

(***************************************************************************)
(* Reconstruction as the specification describes it, over the tokens of    *)
(* the text that the last parseQuickCommand step was applied to.           *)
(***************************************************************************)
Parsing == op = "parseQuickCommand"

Tokens == parseCommandLine(inp.command)

LeadingVerbs == {W_call, W_send}

RecognizedFlags == {W_rpc_url, W_gas_limit, W_gas_price, W_value}

\* The tokens left once a leading verb is discarded.
AfterVerb ==
    IF Tokens # <<>> /\ Tokens[1] \in LeadingVerbs THEN Tail(Tokens) ELSE Tokens

\* The tokens after signerAlias, contractReference and methodSignature.
RestOfTokens == SubSeq(AfterVerb, 4, Len(AfterVerb))

\* Token i of rest is reached by the left-to-right scan, that is, it was
\* not consumed as the value of a recognized flag scanned just before it.
RECURSIVE IsScanned(_, _)
IsScanned(rest, i) ==
    i = 1 \/ ~(IsScanned(rest, i - 1) /\ rest[i - 1] \in RecognizedFlags)

\* The subsequence of s at the indices of I that are at least i.
RECURSIVE SubseqAt(_, _, _)
SubseqAt(s, I, i) ==
    IF i > Len(s) THEN <<>>
    ELSE (IF i \in I THEN <<s[i]>> ELSE <<>>) \o SubseqAt(s, I, i + 1)

FlagLike(token) == startsWith(token, FlagPrefix)

\* The value of a flag: the successor of its last scanned occurrence that
\* has a successor.
OptionValue(rest, flag) ==
    LET I == {i \in 1..(Len(rest) - 1) : IsScanned(rest, i) /\ rest[i] = flag}
    IN IF I = {} THEN Undefined
       ELSE rest[1 + CHOOSE i \in I : \A j \in I : j <= i]

\* C4: a leading call or send is discarded; the reconstruction fails exactly
\* when fewer than 3 tokens remain, and otherwise takes the first three
\* remaining tokens as signerAlias, contractReference and methodSignature.
C4_VerbDiscardedThenThreeTokens ==
    Parsing =>
        LET remaining == AfterVerb IN
        /\ Len(remaining) < 3 => out.kind = "throw"
        /\ Len(remaining) >= 3 =>
               /\ out.kind = "return"
               /\ out.value.alias = remaining[1]
               /\ out.value.contractAddress = remaining[2]
               /\ out.value.methodSignature = remaining[3]

\* C5: a recognized flag that is the last token and has not been consumed
\* as a value makes the reconstruction fail.
C5_DanglingFlagFails ==
    Parsing =>
        LET rest == RestOfTokens IN
        (/\ rest # <<>>
         /\ rest[Len(rest)] \in RecognizedFlags
         /\ IsScanned(rest, Len(rest)))
            => out.kind = "throw"

\* C6 as stated: a scanned flag-like token that is not a recognized flag is
\* appended to positionalArgs in token order and consumes no following
\* token, so positionalArgs holds every scanned token that is not a
\* recognized flag; for the example it is [0xabc, 1000, --wait].
C6_UnrecognizedFlagAppended ==
    (Parsing /\ out.kind = "return") =>
        LET rest == RestOfTokens IN
        /\ out.value.args =
               SubseqAt(rest, {i \in 1..Len(rest) :
                                  /\ IsScanned(rest, i)
                                  /\ rest[i] \notin RecognizedFlags}, 1)
        /\ inp.command = ExampleCommand =>
               out.value.args = <<W_0xabc, W_1000, W_wait>>

\* C6 as amended: a flag-like token that is not a recognized flag is
\* dropped: positionalArgs never holds a token starting with --, the token
\* following it is not consumed (it is in positionalArgs unless it is
\* flag-like itself), and for the example positionalArgs is [0xabc, 1000]
\* with rpcUrl http://x.
C6_UnrecognizedFlagDropped ==
    (Parsing /\ out.kind = "return") =>
        LET rest == RestOfTokens IN
        /\ \A k \in 1..Len(out.value.args) : ~FlagLike(out.value.args[k])
        /\ \A i \in 1..(Len(rest) - 1) :
               (/\ IsScanned(rest, i)
                /\ FlagLike(rest[i])
                /\ rest[i] \notin RecognizedFlags
                /\ ~FlagLike(rest[i + 1]))
                   => \E k \in 1..Len(out.value.args) :
                          out.value.args[k] = rest[i + 1]
        /\ inp.command = ExampleCommand =>
               /\ out.value.args = <<W_0xabc, W_1000>>
               /\ out.value.rpcUrl = W_http_x

\* C6 witness: the example text has been reconstructed.
C6_Witness ==
    Parsing /\ inp.command = ExampleCommand /\ out.kind = "return"

\* C7: each scanned recognized flag that has a successor takes the successor
\* as the value of its option, whatever its text; neither of the two is a
\* positional argument, and positionalArgs is exactly the scanned tokens
\* that do not start with --, in their original order.
C7_FlagPairsConsumed ==
    (Parsing /\ out.kind = "return") =>
        LET rest == RestOfTokens IN
        /\ out.value.args =
               SubseqAt(rest, {i \in 1..Len(rest) :
                                  IsScanned(rest, i) /\ ~FlagLike(rest[i])}, 1)
        /\ out.value.rpcUrl = OptionValue(rest, W_rpc_url)
        /\ out.value.options.gasLimit = OptionValue(rest, W_gas_limit)
        /\ out.value.options.gasPrice = OptionValue(rest, W_gas_price)
        /\ out.value.options.value = OptionValue(rest, W_value)

\* C7 witness: a recognized flag consumed a successor that starts with --,
\* and a later token became a positional argument.
C7_Witness ==
    /\ Parsing
    /\ out.kind = "return"
    /\ LET rest == RestOfTokens IN
       /\ Len(rest) = 3
       /\ rest[1] \in RecognizedFlags
       /\ FlagLike(rest[2])
       /\ out.value.args = <<rest[3]>>

(***************************************************************************)
(* ContractManager: the alias registry.                                    *)
(***************************************************************************)
AddressLength == 42

AddressPrefix == <<"0", "x">>

isAddressFormat_PrefixOnly(address) == startsWith(address, AddressPrefix)

\* address.startsWith('0x') && address.length === 42
isAddressFormat(address) ==
    startsWith(address, AddressPrefix) /\ Len(address) = AddressLength

\* getContracts(): the parsed file, or the in-memory default document when
\* the file cannot be read.
getContracts ==
    IF contractsReadable THEN contractsFile ELSE defaultContracts

ContractInfo(alias, address, name) ==
    [alias |-> alias, address |-> address, name |-> name]

\* { ...contract, ...updates }: a field that updates provides replaces the
\* field of contract; an inherited prototype member spreads to nothing.
SpreadUpdate(contracts, alias, updates) ==
    [alias |-> Field(contracts, alias, "alias"),
     address |-> IF updates.address # Undefined THEN updates.address
                 ELSE Field(contracts, alias, "address"),
     name |-> IF updates.name # Undefined THEN updates.name
              ELSE Field(contracts, alias, "name")]

\* saveContracts(contracts) where contracts is the object read by
\* getContracts and then modified: the document is written to the file,
\* and when it was the default document that was read (file unreadable),
\* the modification was made to defaultContracts itself.
SaveModified(contracts) ==
    /\ contractsFile' = contracts
    /\ contractsReadable' = TRUE
    /\ defaultContracts' = IF contractsReadable THEN defaultContracts
                           ELSE contracts

Do_addContract(alias, address, name) ==
    /\ op' = "addContract"
    /\ inp' = [alias |-> alias, address |-> address, name |-> name]
    /\ IF ~isAddressFormat(address)
       THEN /\ out' = Thrown("InvalidAddressFormat")
            /\ UNCHANGED contractVars
       ELSE /\ out' = Returned(Undefined)
            /\ SaveModified(Assign(getContracts, alias,
                                   ContractInfo(alias, address, name)))
    /\ UNCHANGED <<commandVars, managerVars>>

Do_removeContract(alias) ==
    /\ op' = "removeContract"
    /\ inp' = [alias |-> alias]
    /\ IF ~Truthy(getContracts, alias)
       THEN /\ out' = Returned(FALSE)
            /\ UNCHANGED contractVars
       ELSE /\ out' = Returned(TRUE)
            /\ SaveModified(Delete(getContracts, alias))
    /\ UNCHANGED <<commandVars, managerVars>>

Do_updateContract(alias, updates) ==
    /\ op' = "updateContract"
    /\ inp' = [alias |-> alias, updates |-> updates]
    /\ IF ~Truthy(getContracts, alias)
       THEN /\ out' = Returned(FALSE)
            /\ UNCHANGED contractVars
       ELSE IF TruthyStr(updates.address) /\ ~isAddressFormat(updates.address)
       THEN /\ out' = Thrown("InvalidAddressFormat")
            /\ UNCHANGED contractVars
       ELSE /\ out' = Returned(TRUE)
            /\ SaveModified(Assign(getContracts, alias,
                                   SpreadUpdate(getContracts, alias, updates)))
    /\ UNCHANGED <<commandVars, managerVars>>

\* resolveAddress(aliasOrAddress); getContract(alias) is contracts[alias].
resolveAddress(aliasOrAddress) ==
    IF isAddressFormat(aliasOrAddress) THEN aliasOrAddress
    ELSE IF Truthy(getContracts, aliasOrAddress)
    THEN Field(getContracts, aliasOrAddress, "address")
    ELSE aliasOrAddress

Do_resolveAddress(aliasOrAddress) ==
    /\ op' = "resolveAddress"
    /\ inp' = [aliasOrAddress |-> aliasOrAddress]
    /\ out' = Returned(resolveAddress(aliasOrAddress))
    /\ UNCHANGED <<contractVars, commandVars, managerVars>>

\* resetContracts(): saves a copy of the default document.
Do_resetContracts ==
    /\ op' = "resetContracts"
    /\ inp' = <<>>
    /\ out' = Returned(Undefined)
    /\ contractsFile' = defaultContracts
    /\ contractsReadable' = TRUE
    /\ UNCHANGED <<defaultContracts, commandVars, managerVars>>

(***************************************************************************)
(* QuickCommandManager: the template registry.                             *)
(***************************************************************************)
SaveModifiedCommands(commands) ==
    /\ commandsFile' = commands
    /\ commandsReadable' = TRUE
    /\ defaultQuickCommands' = IF commandsReadable THEN defaultQuickCommands
                               ELSE commands

Do_addQuickCommand(name, parameters, template) ==
    /\ op' = "addQuickCommand"
    /\ inp' = [name |-> name, parameters |-> parameters, template |-> template]
    /\ out' = Returned(Undefined)
    /\ SaveModifiedCommands(Assign(getQuickCommands, name,
                                   QuickCommand(name, parameters, template)))
    /\ UNCHANGED <<contractVars, managerVars>>

Do_removeQuickCommand(name) ==
    /\ op' = "removeQuickCommand"
    /\ inp' = [name |-> name]
    /\ IF ~Truthy(getQuickCommands, name)
       THEN /\ out' = Returned(FALSE)
            /\ UNCHANGED commandVars
       ELSE /\ out' = Returned(TRUE)
            /\ SaveModifiedCommands(Delete(getQuickCommands, name))
    /\ UNCHANGED <<contractVars, managerVars>>

Do_resetQuickCommands ==
    /\ op' = "resetQuickCommands"
    /\ inp' = <<>>
    /\ out' = Returned(Undefined)
    /\ commandsFile' = defaultQuickCommands
    /\ commandsReadable' = TRUE
    /\ UNCHANGED <<defaultQuickCommands, contractVars, managerVars>>

(***************************************************************************)
(* Specifications of the two registries: any sequence of operations on    *)
(* the document the constructor has created, Spec for the alias registry   *)
(* and SpecTemplates for the template registry.                            *)
(***************************************************************************)
AddrA == AddressPrefix \o Rep("a", 40)
AddrB == AddressPrefix \o Rep("b", 40)
\* 42 characters with the prefix, but not hexadecimal
AddrNotHex == AddressPrefix \o Rep("z", 40)
\* the address of the documented usage example, 17 characters
AddrShort == <<"0", "x", "1", "2", "3", "4", "5", "6", "7", "8", "9",
               "a", "b", "c", "d", "e", "f">>

Aliases == {W_token, AddrA, AddrNotHex, W_constructor}

AddressInputs == {AddrA, AddrNotHex, AddrShort}

\* updates of updateContract: a field that is Undefined is not provided
UpdateInputs ==
    [address : {AddrA, AddrShort, <<>>, Undefined},
     name : {W_MyToken, Undefined}] \ {[address |-> Undefined, name |-> Undefined]}

ResolveInputs == Aliases \cup {AddrB, W_nope}

CommandNames == {W_mint, W_constructor}

CommandInputs ==
    {<< <<"a">> >>, << <<"a">>, <<"b">> >>}
        \X {<<"$", "a">>, <<"$", "a", " ", "$", "b">>}

Init ==
    /\ contractsFile = EmptyMap
    /\ contractsReadable = TRUE
    /\ defaultContracts = EmptyMap
    /\ commandsFile = EmptyMap
    /\ commandsReadable = TRUE
    /\ defaultQuickCommands = EmptyMap
    /\ op = "init"
    /\ inp = <<>>
    /\ out = Returned(Undefined)
    /\ InitWalletManager

Next ==
    \/ \E alias \in Aliases, address \in AddressInputs :
           Do_addContract(alias, address, Undefined)
    \/ \E alias \in Aliases, updates \in UpdateInputs :
           Do_updateContract(alias, updates)
    \/ \E alias \in Aliases : Do_removeContract(alias)
    \/ \E token \in ResolveInputs : Do_resolveAddress(token)
    \/ Do_resetContracts

Spec == Init /\ [][Next]_vars

(***************************************************************************)
(* SpecBoth: additions to and removals from both registries, over small    *)
(* sets of keys and values.                                                *)
(***************************************************************************)
NextBoth ==
    \/ \E alias \in {W_token, W_constructor}, address \in {AddrA, AddrB} :
           Do_addContract(alias, address, Undefined)
    \/ \E alias \in {W_token, W_constructor} : Do_removeContract(alias)
    \/ \E name \in CommandNames, c \in CommandInputs :
           Do_addQuickCommand(name, c[1], c[2])
    \/ \E name \in CommandNames : Do_removeQuickCommand(name)

SpecBoth == Init /\ [][NextBoth]_vars

\* The literal-address format of the specification: the prefix 0x followed
\* by exactly 40 hexadecimal characters.
LiteralAddress(token) ==
    /\ Len(token) = 42
    /\ startsWith(token, <<"0", "x">>)
    /\ \A i \in 3..Len(token) : token[i] \in HexChars

\* C8: resolveAddress returns a token of the literal-address format
\* unchanged, otherwise the address of the entry stored under the token,
\* otherwise the token unchanged, and never changes the registry document.
C8_ResolveAddress ==
    [][op' = "resolveAddress" =>
          LET token == inp'.aliasOrAddress IN
          /\ out'.value = IF LiteralAddress(token) THEN token
                          ELSE IF HasOwn(getContracts, token)
                          THEN getContracts[token].address
                          ELSE token
          /\ contractVars' = contractVars]_vars

\* C9: adding an alias or a template under a key that is already in the
\* registry fails with a duplicate error and leaves the document unchanged.
C9_AddDuplicateFails ==
    [][/\ (op' = "addContract" /\ HasOwn(getContracts, inp'.alias))
           => (out'.kind = "throw" /\ contractVars' = contractVars)
       /\ (op' = "addQuickCommand" /\ HasOwn(getQuickCommands, inp'.name))
           => (out'.kind = "throw" /\ commandVars' = commandVars)]_vars

\* C10: every alias entry stored in the registry has an address of the
\* literal format.
C10_StoredAddressesLiteral ==
    \A alias \in DOMAIN contractsFile :
        LiteralAddress(contractsFile[alias].address)

\* An operation failed: it threw, or it returned false.
Failed(outcome) == outcome.kind = "throw" \/ outcome.value = FALSE

\* C11: updateContract fails when the alias is not in the registry, and
\* fails when an address is provided that is not of the literal format; in
\* both cases the registry document is unchanged.
C11_UpdateFailsUnchanged ==
    [][op' = "updateContract" =>
          /\ ~HasOwn(getContracts, inp'.alias)
                 => (Failed(out') /\ contractVars' = contractVars)
          /\ (/\ inp'.updates.address # Undefined
              /\ ~LiteralAddress(inp'.updates.address))
                 => (Failed(out') /\ contractVars' = contractVars)]_vars

(***************************************************************************)
(* Specification of the tokenizer: every text over a small alphabet of a   *)
(* letter, the space, the tab and the two quote characters, and the        *)
(* examples of the specification.                                          *)
(***************************************************************************)
MaxText == 5

TextAlphabet == {"a", " ", "\t", "\"", "'"}

\* a"b c"d
ExampleQuotedInside == <<"a", "\"", "b", " ", "c", "\"", "d">>

\* call a "b c" d
ExampleQuotedToken ==
    <<"c", "a", "l", "l", " ", "a", " ", "\"", "b", " ", "c", "\"", " ", "d">>

Texts ==
    SeqsUpTo(TextAlphabet, MaxText) \cup {ExampleQuotedInside, ExampleQuotedToken}

\* One tokenization per behaviour: the text is the input.
NextTokenize ==
    /\ op = "init"
    /\ \E text \in Texts : Do_parseCommandLine(text)

SpecTokenize == InitParse /\ [][NextTokenize]_vars

(***************************************************************************)
(* Tokenization as the specification describes it.                         *)
(***************************************************************************)
Tokenizing == op = "parseCommandLine"

Whitespace == {" ", "\t"}

QuoteChars == {"\"", "'"}

\* The quote character of the span that is open after text[1..i], or ""
\* when no span is open there.
RECURSIVE OpenQuote(_, _)
OpenQuote(text, i) ==
    IF i = 0 THEN ""
    ELSE LET q == OpenQuote(text, i - 1)
         IN IF q = "" THEN (IF text[i] \in QuoteChars THEN text[i] ELSE "")
            ELSE IF text[i] = q THEN "" ELSE q

\* text[i] opens or closes a quoted span.
IsDelimiter(text, i) == OpenQuote(text, i - 1) # OpenQuote(text, i)

\* text[i] is a character of the set ws outside every quoted span.
IsUnquoted(text, i, ws) == text[i] \in ws /\ OpenQuote(text, i - 1) = ""

\* The tokens of text from index i on, cur being the token under way: the
\* maximal runs of characters between unquoted characters of ws, without
\* their quote delimiters, a run that holds no character giving no token.
RECURSIVE TokensFrom(_, _, _, _)
TokensFrom(text, i, cur, ws) ==
    IF i > Len(text) THEN (IF cur # <<>> THEN <<cur>> ELSE <<>>)
    ELSE IF IsUnquoted(text, i, ws)
    THEN (IF cur # <<>> THEN <<cur>> ELSE <<>>) \o TokensFrom(text, i + 1, <<>>, ws)
    ELSE IF IsDelimiter(text, i) THEN TokensFrom(text, i + 1, cur, ws)
    ELSE TokensFrom(text, i + 1, Append(cur, text[i]), ws)

\* C12: the tokens are the maximal runs of the text between runs of
\* unquoted whitespace characters (a boundary at every such run and nowhere
\* else), and none of them is empty.
C12_BoundariesAtUnquotedWhitespace ==
    Tokenizing =>
        /\ out.value = TokensFrom(inp.command, 1, <<>>, Whitespace)
        /\ \A k \in 1..Len(out.value) : out.value[k] # <<>>

\* C13: where every unquoted whitespace character is a space, the tokens
\* are the runs between them with each span's opening and closing quote
\* removed and every character inside a span kept; a span is closed only by
\* the character that opened it and does not end the token: a"b c"d is the
\* single token ab cd.
C13_QuotesConsumedSpanLiteral ==
    (/\ Tokenizing
     /\ \A i \in 1..Len(inp.command) : ~IsUnquoted(inp.command, i, {"\t"}))
        => /\ out.value = TokensFrom(inp.command, 1, <<>>, {" "})
           /\ inp.command = ExampleQuotedInside
                  => out.value = << <<"a", "b", " ", "c", "d">> >>

\* C13 witness: a span opened by " that holds the other quote character, a
\* space and a tab, glued to a preceding letter, gave one token.
C13_Witness ==
    /\ Tokenizing
    /\ inp.command = <<"a", "\"", "'", " ", "\t">>
    /\ out.value = << <<"a", "'", " ", "\t">> >>

\* The index of the quote character that opens the span left open at the
\* end of text.
UnclosedQuoteAt(text) ==
    CHOOSE j \in 1..Len(text) :
        /\ OpenQuote(text, j - 1) = ""
        /\ \A k \in j..Len(text) : OpenQuote(text, k) # ""

\* C14: tokenization returns for every text; if a span is still open at the
\* end, the characters after its opening quote, whitespace included, are
\* the end of the last token; the empty text gives no token.
C14_NeverFailsUnclosedQuote ==
    Tokenizing =>
        LET text == inp.command
            n == Len(inp.command)
        IN /\ out.kind = "return"
           /\ text = <<>> => out.value = <<>>
           /\ (OpenQuote(text, n) # "" /\ UnclosedQuoteAt(text) < n) =>
                  LET j == UnclosedQuoteAt(text)
                      last == out.value[Len(out.value)]
                  IN /\ out.value # <<>>
                     /\ Len(last) >= n - j
                     /\ SubSeq(last, Len(last) - (n - j) + 1, Len(last))
                            = SubSeq(text, j + 1, n)

\* C14 witness: a text whose second token starts with a quote that is never
\* closed and is followed by a space and a letter.
C14_Witness ==
    /\ Tokenizing
    /\ inp.command = <<"a", " ", "'", " ", "a">>
    /\ out.value = << <<"a">>, <<" ", "a">> >>

\* detokenize: the tokens joined with single spaces, a token that contains
\* whitespace wrapped in double quotes.
Wrap(token) ==
    IF \E i \in 1..Len(token) : token[i] \in Whitespace
    THEN <<"\"">> \o token \o <<"\"">>
    ELSE token

Detokenize(tokens) == Join([k \in 1..Len(tokens) |-> Wrap(tokens[k])])

HasQuoteChar(token) == \E i \in 1..Len(token) : token[i] \in QuoteChars

\* C15 as stated: for every text S, tokenize(detokenize(tokenize(S))) is
\* tokenize(S).
C15_RoundTripStable ==
    Tokenizing => parseCommandLine(Detokenize(out.value)) = out.value

\* C15 as amended: the round trip is stable for every text S of which no
\* token contains a quote character.
C15_RoundTripStableWithoutQuoteChars ==
    (Tokenizing /\ \A k \in 1..Len(out.value) : ~HasQuoteChar(out.value[k]))
        => parseCommandLine(Detokenize(out.value)) = out.value

\* C15 witness: the example of the specification, with a token that holds
\* a space, has been tokenized.
C15_Witness ==
    /\ Tokenizing
    /\ inp.command = ExampleQuotedToken
    /\ out.value = <<W_call, <<"a">>, <<"b", " ", "c">>, <<"d">> >>

(***************************************************************************)
(* QuickCommandManager.parseParametersFromTemplate: the placeholders of a  *)
(* template body.                                                          *)
(***************************************************************************)
\* [a-zA-Z_]
ParamFirstChars == LowerLetters \cup UpperLetters \cup {"_"}

\* [a-zA-Z0-9_]
ParamRestChars == ParamFirstChars \cup Digits

\* The length of the longest match of [a-zA-Z0-9_]* at index i of template.
RECURSIVE ParamRestRun(_, _)
ParamRestRun(template, i) ==
    IF i <= Len(template) /\ template[i] \in ParamRestChars
    THEN 1 + ParamRestRun(template, i + 1)
    ELSE 0

isNew_Always(parameters, param) == TRUE

\* !seen.has(param); seen holds exactly the elements of parameters
isNew(parameters, param) == \A k \in 1..Len(parameters) : parameters[k] # param

\* The while loop over paramRegex.exec(template): the next match of
\* /\$([a-zA-Z_][a-zA-Z0-9_]*)/g is searched from index i (lastIndex) on.
RECURSIVE paramRegexExecLoop(_, _, _)
paramRegexExecLoop(template, i, parameters) ==
    IF i > Len(template) THEN parameters
    ELSE IF /\ template[i] = "$"
            /\ i + 1 <= Len(template)
            /\ template[i + 1] \in ParamFirstChars
    THEN LET n == ParamRestRun(template, i + 2)
             param == SubSeq(template, i + 1, i + 1 + n)
         IN paramRegexExecLoop(template, i + 2 + n,
                IF isNew(parameters, param) THEN Append(parameters, param)
                ELSE parameters)
    ELSE paramRegexExecLoop(template, i + 1, parameters)

parseParametersFromTemplate(template) == paramRegexExecLoop(template, 1, <<>>)

Do_parseParametersFromTemplate(template) ==
    /\ op' = "parseParametersFromTemplate"
    /\ inp' = [template |-> template]
    /\ out' = Returned(parseParametersFromTemplate(template))
    /\ UNCHANGED <<contractVars, commandVars, managerVars>>

(***************************************************************************)
(* Specification of the placeholder detection: every body over a small     *)
(* alphabet of the sigil, two letters, a digit, the underscore and the     *)
(* space.                                                                  *)
(***************************************************************************)
DetectAlphabet == {"$", "a", "b", "1", "_", " "}

\* One detection per behaviour: the body is the input.
NextDetect ==
    /\ op = "init"
    /\ \E template \in SeqsUpTo(DetectAlphabet, MaxBody) :
           Do_parseParametersFromTemplate(template)

SpecDetect == InitParse /\ [][NextDetect]_vars

Detecting == op = "parseParametersFromTemplate"

\* The indices of body at which a sigil is immediately followed by an
\* identifier, and the identifier that follows the sigil at such an index.
PlaceholderAt(body) == {i \in 1..Len(body) : body[i] = "$" /\ IdentLen(body, i + 1) > 0}

IdentAfter(body, i) == SubSeq(body, i + 1, i + IdentLen(body, i + 1))

\* The index of the first placeholder of body that names id.
FirstPlaceholderOf(body, id) ==
    CHOOSE i \in PlaceholderAt(body) :
        /\ IdentAfter(body, i) = id
        /\ \A j \in PlaceholderAt(body) : IdentAfter(body, j) = id => i <= j

\* C16: the result holds exactly the identifiers that follow a sigil in the
\* body, each once, in the order of their first occurrences.
C16_DetectedParameters ==
    Detecting =>
        LET body == inp.template
            ps == out.value
        IN /\ {ps[k] : k \in 1..Len(ps)}
                  = {IdentAfter(body, i) : i \in PlaceholderAt(body)}
           /\ Distinct(ps)
           /\ \A k, l \in 1..Len(ps) :
                  k < l => FirstPlaceholderOf(body, ps[k])
                               < FirstPlaceholderOf(body, ps[l])

\* C16 witness: a body in which $a occurs twice gave the single parameter a.
C16_Witness ==
    /\ Detecting
    /\ inp.template = <<"$", "a", "$", "a">>
    /\ out.value = << <<"a">> >>

\* C17: removeContract and removeQuickCommand return true exactly when an
\* entry is stored under the key; after true the key is absent and the
\* other entries are unchanged, after false all entries are unchanged.
C17_RemoveReturnsExisted ==
    [][/\ op' = "removeContract" =>
              LET existed == HasOwn(getContracts, inp'.alias)
              IN /\ out'.value = existed
                 /\ getContracts' = IF existed
                                    THEN Delete(getContracts, inp'.alias)
                                    ELSE getContracts
       /\ op' = "removeQuickCommand" =>
              LET existed == HasOwn(getQuickCommands, inp'.name)
              IN /\ out'.value = existed
                 /\ getQuickCommands' = IF existed
                                        THEN Delete(getQuickCommands, inp'.name)
                                        ELSE getQuickCommands]_vars

(***************************************************************************)
(* SpecReset: additions and resets on both registries of one manager,      *)
(* while the environment may delete or corrupt a registry file, after      *)
(* which reads fall back to the in-memory default document until the next  *)
(* write.                                                                  *)
(***************************************************************************)
\* contracts.json is deleted or made unparsable: readFileSync or JSON.parse
\* throws in getContracts.  What the file held can no longer be read.
Env_contractsFileUnreadable ==
    /\ contractsReadable
    /\ op' = "contractsFileUnreadable"
    /\ inp' = <<>>
    /\ out' = Returned(Undefined)
    /\ contractsFile' = EmptyMap
    /\ contractsReadable' = FALSE
    /\ UNCHANGED <<defaultContracts, commandVars, managerVars>>

\* The same for quick-commands.json and getQuickCommands.
Env_commandsFileUnreadable ==
    /\ commandsReadable
    /\ op' = "commandsFileUnreadable"
    /\ inp' = <<>>
    /\ out' = Returned(Undefined)
    /\ commandsFile' = EmptyMap
    /\ commandsReadable' = FALSE
    /\ UNCHANGED <<defaultQuickCommands, contractVars, managerVars>>

NextReset ==
    \/ \E alias \in {W_token, W_nope}, address \in {AddrA, AddrB} :
           Do_addContract(alias, address, Undefined)
    \/ \E name \in {W_mint, W_nope}, c \in CommandInputs :
           Do_addQuickCommand(name, c[1], c[2])
    \/ Do_resetContracts
    \/ Do_resetQuickCommands
    \/ Env_contractsFileUnreadable
    \/ Env_commandsFileUnreadable

SpecReset == Init /\ [][NextReset]_vars

\* C18: right after resetContracts or resetQuickCommands the persisted
\* document of that registry has an empty entries mapping.
C18_ResetEmptiesEntries ==
    /\ op = "resetContracts" => (contractsReadable /\ contractsFile = EmptyMap)
    /\ op = "resetQuickCommands" => (commandsReadable /\ commandsFile = EmptyMap)

(***************************************************************************)
(* The 'quick add <name> <parameters> <template>' action of the command    *)
(* line.                                                                   *)
(***************************************************************************)
\* The action printed an error and returned without calling the manager.
Rejected(e) ==
    [kind |-> "reject", value |-> Undefined, error |-> e, expected |-> 0, actual |-> 0]

\* Characters matched by \s (those that occur in the inputs below).
RegexWhitespace == {" ", "\t"}

\* parameters.trim().split(/\s+/).filter(p => p.length > 0), from index i
\* on, cur being the piece under way: the maximal runs of characters that
\* are not matched by \s.
RECURSIVE splitParameters(_, _, _)
splitParameters(parameters, i, cur) ==
    IF i > Len(parameters) THEN (IF cur # <<>> THEN <<cur>> ELSE <<>>)
    ELSE IF parameters[i] \in RegexWhitespace
    THEN (IF cur # <<>> THEN <<cur>> ELSE <<>>)
         \o splitParameters(parameters, i + 1, <<>>)
    ELSE splitParameters(parameters, i + 1, Append(cur, parameters[i]))

noParameters_Never(finalParams) == FALSE

\* finalParams.length === 0
noParameters(finalParams) == Len(finalParams) = 0

Do_quickAdd(name, parameters, template) ==
    LET paramList == splitParameters(parameters, 1, <<>>)
        detectedParams == parseParametersFromTemplate(template)
        finalParams == IF Len(paramList) > 0 THEN paramList ELSE detectedParams
    IN /\ op' = "quickAdd"
       /\ inp' = [name |-> name, parameters |-> parameters, template |-> template]
       /\ IF noParameters(finalParams)
          THEN /\ out' = Rejected("NoParameters")
               /\ UNCHANGED commandVars
          ELSE /\ out' = Returned(Undefined)
               /\ SaveModifiedCommands(Assign(getQuickCommands, name,
                      QuickCommand(name, finalParams, template)))
       /\ UNCHANGED <<contractVars, managerVars>>

(***************************************************************************)
(* SpecQuickAdd: additions to the template registry through the command    *)
(* line and removals.                                                      *)
(***************************************************************************)
\* "", " ", "a", "a b", "a a", "b<tab>a"
ParameterTexts ==
    {<<>>, <<" ">>, <<"a">>, <<"a", " ", "b">>, <<"a", " ", "a">>,
     <<"b", "\t", "a">>}

\* "x", "$a", "$b $a $b"
TemplateTexts ==
    {<<"x">>, <<"$", "a">>, <<"$", "b", " ", "$", "a", " ", "$", "b">>}

NextQuickAdd ==
    \/ \E name \in {W_mint, W_nope}, parameters \in ParameterTexts,
          template \in TemplateTexts :
           Do_quickAdd(name, parameters, template)
    \/ \E name \in {W_mint, W_nope} : Do_removeQuickCommand(name)

SpecQuickAdd == Init /\ [][NextQuickAdd]_vars

\* C19: the parameters of every stored template hold no identifier twice.
C19_StoredParametersDistinct ==
    \A name \in DOMAIN commandsFile : Distinct(commandsFile[name].parameters)

\* The identifiers of the first placeholders of body from index i on.
RECURSIVE DetectedFrom(_, _)
DetectedFrom(body, i) ==
    IF i > Len(body) THEN <<>>
    ELSE (IF /\ i \in PlaceholderAt(body)
             /\ FirstPlaceholderOf(body, IdentAfter(body, i)) = i
          THEN <<IdentAfter(body, i)>>
          ELSE <<>>) \o DetectedFrom(body, i + 1)

\* C20: a 'quick add' whose explicit parameter list is empty is rejected
\* and leaves the template registry unchanged when the body holds no
\* placeholder, and otherwise stores the template with the detected
\* placeholders as its parameters.
C20_QuickAddWithoutExplicitParameters ==
    [][(/\ op' = "quickAdd"
        /\ \A i \in 1..Len(inp'.parameters) : inp'.parameters[i] \in Whitespace)
       => IF PlaceholderAt(inp'.template) = {}
          THEN out'.kind = "reject" /\ commandVars' = commandVars
          ELSE /\ out'.kind = "return"
               /\ HasOwn(commandsFile', inp'.name)
               /\ commandsFile'[inp'.name].parameters
                      = DetectedFrom(inp'.template, 1)
               /\ commandsFile'[inp'.name].template = inp'.template]_vars

\* C20 witness: an addition without parameters and without placeholders
\* was rejected while the registry held a template whose parameters had
\* been detected.
C20_Witness ==
    /\ op = "quickAdd"
    /\ out.kind = "reject"
    /\ inp.parameters = <<" ">>
    /\ HasOwn(commandsFile, W_mint)
    /\ commandsFile[W_mint].parameters = << <<"b">>, <<"a">> >>

(***************************************************************************)
(* WalletManager: wallets, wallet-info.json and keystore files.            *)
(***************************************************************************)
\* Wallets registered in one behaviour (each has a keystore path of its
\* own: generateKeystorePath uses the time and four random bytes).
MaxKeystores == 2

\* wallet.encrypt(password): the keystore JSON of a wallet.
encrypt(wallet, password) == [key |-> wallet.key, password |-> password]

\* ethers.Wallet.fromEncryptedJson(keystoreJson, password) decrypts exactly
\* with the password the JSON was encrypted with, and throws otherwise.
fromEncryptedJson(keystoreJson, password) == keystoreJson.password = password

\* A wallet object: its private key, and whether it is connected to a
\* provider.
ManagedWallet(key) == [key |-> key, connected |-> FALSE]

WalletInfo(alias, key, keystorePath) ==
    [alias |-> alias, address |-> key, keystorePath |-> keystorePath]

\* saveWalletInfo(): the map is written to wallet-info.json of keystoreDir.
saveWalletInfo(info) ==
    walletInfoFiles' = [walletInfoFiles EXCEPT
                           ![keystoreDir] = [exists |-> TRUE, data |-> info]]

\* The wallet is registered under alias, with a keystore file unless
\* saveKeystore is false (the common part of createWallet and importWallet).
registerWallet(alias, key, password, saveKeystore) ==
    LET serial == keystoreFiles.created + 1
        keystorePath == <<keystoreDir, alias, serial>>
        info == WalletInfo(alias, key,
                           IF saveKeystore THEN keystorePath ELSE Undefined)
    IN /\ keystoreFiles' =
              [created |-> serial,
               files |-> IF saveKeystore
                         THEN Assign(keystoreFiles.files, keystorePath,
                                     encrypt(ManagedWallet(key), password))
                         ELSE keystoreFiles.files]
       /\ wallets' = Assign(wallets, alias, ManagedWallet(key))
       /\ walletInfo' = Assign(walletInfo, alias, info)
       /\ saveWalletInfo(Assign(walletInfo, alias, info))
       /\ out' = Returned(ManagedWallet(key))
       /\ UNCHANGED <<keystoreDir, configFile>>

\* createWallet: ethers.Wallet.createRandom() yields a key no other wallet
\* has (the number of this creation).
Do_createWallet(alias, password, saveKeystore) ==
    /\ keystoreFiles.created < MaxKeystores
    /\ op' = "createWallet"
    /\ inp' = [alias |-> alias, password |-> password]
    /\ IF HasOwn(walletInfo, alias)
       THEN /\ out' = Thrown("AlreadyExists")
            /\ UNCHANGED walletVars
       ELSE registerWallet(alias, keystoreFiles.created + 1, password, saveKeystore)
    /\ UNCHANGED <<contractVars, commandVars, pipeline, raceVars>>

\* importWallet with options.privateKey (key 0 stands for the given key).
Do_importWallet(alias, password, saveKeystore) ==
    /\ keystoreFiles.created < MaxKeystores
    /\ op' = "importWallet"
    /\ inp' = [alias |-> alias, password |-> password]
    /\ IF HasOwn(walletInfo, alias)
       THEN /\ out' = Thrown("AlreadyExists")
            /\ UNCHANGED walletVars
       ELSE registerWallet(alias, 0, password, saveKeystore)
    /\ UNCHANGED <<contractVars, commandVars, pipeline, raceVars>>

\* loadWallet(alias, password): the outcome, and the wallets map after it.
loadWallet(alias, password) ==
    IF HasOwn(wallets, alias)
    THEN [outcome |-> Returned(wallets[alias]), wallets |-> wallets]
    ELSE IF ~HasOwn(walletInfo, alias) \/ walletInfo[alias].keystorePath = Undefined
    THEN [outcome |-> Thrown("NotFoundOrNoKeystore"), wallets |-> wallets]
    ELSE IF ~HasOwn(keystoreFiles.files, walletInfo[alias].keystorePath)
    THEN [outcome |-> Thrown("KeystoreFileNotFound"), wallets |-> wallets]
    ELSE LET keystoreJson == keystoreFiles.files[walletInfo[alias].keystorePath]
         IN IF ~fromEncryptedJson(keystoreJson, password)
            THEN [outcome |-> Thrown("InvalidPassword"), wallets |-> wallets]
            ELSE [outcome |-> Returned(ManagedWallet(keystoreJson.key)),
                  wallets |-> Assign(wallets, alias,
                                     ManagedWallet(keystoreJson.key))]

Do_loadWallet(alias, password) ==
    /\ op' = "loadWallet"
    /\ inp' = [alias |-> alias, password |-> password]
    /\ out' = loadWallet(alias, password).outcome
    /\ wallets' = loadWallet(alias, password).wallets
    /\ UNCHANGED <<walletInfo, keystoreDir, configFile, walletInfoFiles,
                   keystoreFiles, contractVars, commandVars, pipeline, raceVars>>

Do_removeWallet(alias) ==
    /\ op' = "removeWallet"
    /\ inp' = [alias |-> alias]
    /\ IF ~HasOwn(walletInfo, alias)
       THEN /\ out' = Returned(FALSE)
            /\ UNCHANGED walletVars
       ELSE /\ out' = Returned(TRUE)
            /\ wallets' = Delete(wallets, alias)
            /\ walletInfo' = Delete(walletInfo, alias)
            /\ keystoreFiles' =
                   [keystoreFiles EXCEPT
                       !.files = Delete(@, walletInfo[alias].keystorePath)]
            /\ saveWalletInfo(Delete(walletInfo, alias))
            /\ UNCHANGED <<keystoreDir, configFile>>
    /\ UNCHANGED <<contractVars, commandVars, pipeline, raceVars>>

Do_updateWalletPassword(alias, oldPassword, newPassword) ==
    /\ op' = "updateWalletPassword"
    /\ inp' = [alias |-> alias, oldPassword |-> oldPassword,
               newPassword |-> newPassword]
    /\ IF ~HasOwn(walletInfo, alias) \/ walletInfo[alias].keystorePath = Undefined
       THEN /\ out' = Thrown("NotFoundOrNoKeystore")
            /\ UNCHANGED <<wallets, keystoreFiles>>
       ELSE LET loaded == loadWallet(alias, oldPassword)
            IN /\ wallets' = loaded.wallets
               /\ IF loaded.outcome.kind = "throw"
                  THEN /\ out' = loaded.outcome
                       /\ UNCHANGED keystoreFiles
                  ELSE /\ out' = Returned(Undefined)
                       /\ keystoreFiles' =
                              [keystoreFiles EXCEPT
                                  !.files = Assign(@, walletInfo[alias].keystorePath,
                                                encrypt(loaded.outcome.value,
                                                        newPassword))]
    /\ UNCHANGED <<walletInfo, keystoreDir, configFile, walletInfoFiles,
                   contractVars, commandVars, pipeline, raceVars>>

Do_connectToProvider(alias) ==
    /\ op' = "connectToProvider"
    /\ inp' = [alias |-> alias]
    /\ IF ~HasOwn(wallets, alias)
       THEN /\ out' = Thrown("NotLoaded")
            /\ UNCHANGED wallets
       ELSE /\ out' = Returned([wallets[alias] EXCEPT !.connected = TRUE])
            /\ wallets' = Assign(wallets, alias,
                                 [wallets[alias] EXCEPT !.connected = TRUE])
    /\ UNCHANGED <<walletInfo, keystoreDir, configFile, walletInfoFiles,
                   keystoreFiles, contractVars, commandVars, pipeline, raceVars>>

\* loadWalletInfo(): the map read from wallet-info.json of directory dir,
\* or the present map when that file does not exist.
loadWalletInfo(dir) ==
    IF walletInfoFiles[dir].exists THEN walletInfoFiles[dir].data ELSE walletInfo

\* new WalletManager(): a process starts on the persisted files.
Do_newWalletManager ==
    /\ op' = "newWalletManager"
    /\ inp' = <<>>
    /\ out' = Returned(Undefined)
    /\ wallets' = EmptyMap
    /\ walletInfo' = IF walletInfoFiles[configFile.keystoreDir].exists
                     THEN walletInfoFiles[configFile.keystoreDir].data
                     ELSE EmptyMap
    /\ keystoreDir' = configFile.keystoreDir
    /\ UNCHANGED <<configFile, walletInfoFiles, keystoreFiles,
                   contractVars, commandVars, pipeline, raceVars>>

Do_updateKeystoreDir(newDir) ==
    /\ op' = "updateKeystoreDir"
    /\ inp' = [newDir |-> newDir]
    /\ out' = Returned(Undefined)
    /\ configFile' = [configFile EXCEPT !.keystoreDir = newDir]
    /\ keystoreDir' = newDir
    /\ UNCHANGED <<wallets, walletInfo, walletInfoFiles, keystoreFiles,
                   contractVars, commandVars, pipeline, raceVars>>

\* importConfig(filePath): importedConfig is the parsed file; a field that
\* is Undefined is not in the file.
Do_importConfig(importedConfig) ==
    /\ op' = "importConfig"
    /\ inp' = [importedConfig |-> importedConfig]
    /\ IF importedConfig.keystoreDir = Undefined
       THEN /\ out' = Thrown("FailedToImportConfig")
            /\ UNCHANGED <<configFile, keystoreDir, walletInfo>>
       ELSE /\ out' = Returned(Undefined)
            /\ configFile' =
                   [keystoreDir |-> importedConfig.keystoreDir,
                    defaultAccount |->
                        IF importedConfig.defaultAccount # Undefined
                        THEN importedConfig.defaultAccount
                        ELSE configFile.defaultAccount]
            /\ keystoreDir' = importedConfig.keystoreDir
            /\ walletInfo' = loadWalletInfo(importedConfig.keystoreDir)
    /\ UNCHANGED <<wallets, walletInfoFiles, keystoreFiles,
                   contractVars, commandVars, pipeline, raceVars>>

Do_resetConfig ==
    /\ op' = "resetConfig"
    /\ inp' = <<>>
    /\ out' = Returned(Undefined)
    /\ configFile' = [configFile EXCEPT !.keystoreDir = DefaultKeystoreDir]
    /\ keystoreDir' = DefaultKeystoreDir
    /\ UNCHANGED <<wallets, walletInfo, walletInfoFiles, keystoreFiles,
                   contractVars, commandVars, pipeline, raceVars>>

(***************************************************************************)
(* WalletManager.executeQuickCommand: one invocation, statement by         *)
(* statement.  pipeline.calls counts the invocations of callContract,      *)
(* pipeline.started the contract method calls that were started, and       *)
(* pipeline.settled those that have returned or thrown.                    *)
(***************************************************************************)
Begin_executeQuickCommand(name, args) ==
    /\ pipeline.pc \in {"idle", "completed"}
    /\ pipeline' = [PipelineIdle EXCEPT !.pc = "expand", !.name = name,
                                        !.args = args]
    /\ op' = "executeQuickCommand"
    /\ inp' = [name |-> name, args |-> args]
    /\ out' = Returned(Undefined)
    /\ UNCHANGED <<contractVars, commandVars, walletVars, raceVars>>

\* const expandedCommand = this.quickCommandManager.executeQuickCommand(...)
Step_expand ==
    /\ pipeline.pc = "expand"
    /\ LET expanded == executeQuickCommand(pipeline.name, pipeline.args)
       IN /\ pipeline' =
              IF expanded.kind = "throw"
              THEN [pipeline EXCEPT !.pc = "completed", !.result = expanded]
              ELSE [pipeline EXCEPT !.pc = "parse",
                                    !.expanded = expanded.value]
          /\ out' = IF expanded.kind = "throw" THEN expanded ELSE out
    /\ UNCHANGED <<op, inp, contractVars, commandVars, walletVars, raceVars>>

\* const parts = this.parseQuickCommand(expandedCommand)
Step_parse ==
    /\ pipeline.pc = "parse"
    /\ LET parts == parseQuickCommand(pipeline.expanded)
       IN /\ pipeline' =
              IF parts.kind = "throw"
              THEN [pipeline EXCEPT !.pc = "completed", !.result = parts]
              ELSE [pipeline EXCEPT !.pc = "resolve", !.parts = parts.value]
          /\ out' = IF parts.kind = "throw" THEN parts ELSE out
    /\ UNCHANGED <<op, inp, contractVars, commandVars, walletVars, raceVars>>

\* const resolvedContractAddress = this.contractManager.resolveAddress(...)
Step_resolve ==
    /\ pipeline.pc = "resolve"
    /\ pipeline' = [pipeline EXCEPT
                       !.pc = "callContract",
                       !.contract = resolveAddress(pipeline.parts.contractAddress)]
    /\ UNCHANGED <<op, inp, out, contractVars, commandVars, walletVars, raceVars>>

\* callContract up to its await: it throws when the wallet is not loaded,
\* when the address to resolve is undefined (undefined.startsWith), or when
\* ethers rejects the signature, the address or an option; otherwise the
\* contract method is called.
Step_callContract ==
    /\ pipeline.pc = "callContract"
    /\ \/ /\ ~HasOwn(wallets, pipeline.parts.alias)
          /\ pipeline' = [pipeline EXCEPT !.pc = "settled", !.calls = @ + 1,
                                          !.result = Thrown("NotLoaded")]
       \/ /\ HasOwn(wallets, pipeline.parts.alias)
          /\ pipeline.contract = Undefined
          /\ pipeline' = [pipeline EXCEPT !.pc = "settled", !.calls = @ + 1,
                                          !.result = Thrown("TypeError")]
       \/ /\ HasOwn(wallets, pipeline.parts.alias)
          /\ pipeline.contract # Undefined
          /\ pipeline' = [pipeline EXCEPT !.pc = "settled", !.calls = @ + 1,
                                          !.result = Thrown("EthersError")]
       \/ /\ HasOwn(wallets, pipeline.parts.alias)
          /\ pipeline.contract # Undefined
          /\ pipeline' = [pipeline EXCEPT !.pc = "awaiting", !.calls = @ + 1,
                                          !.started = @ + 1]
    /\ UNCHANGED <<op, inp, out, contractVars, commandVars, walletVars, raceVars>>

\* The promise of contract[methodName](...args, txOptions) settles.
Step_submissionSettles ==
    /\ pipeline.pc = "awaiting"
    /\ \E result \in {Returned(<<"t", "x">>), Thrown("CallFailed")} :
           pipeline' = [pipeline EXCEPT !.pc = "settled", !.settled = @ + 1,
                                        !.result = result]
    /\ UNCHANGED <<op, inp, out, contractVars, commandVars, walletVars, raceVars>>

Step_complete_NoAwait ==
    /\ pipeline.pc \in {"awaiting", "settled"}
    /\ pipeline' = [pipeline EXCEPT !.pc = "completed"]
    /\ out' = pipeline.result
    /\ UNCHANGED <<op, inp, contractVars, commandVars, walletVars, raceVars>>

\* return await this.callContract(...): the promise of executeQuickCommand
\* settles with the outcome of callContract.
Step_complete ==
    /\ pipeline.pc = "settled"
    /\ pipeline' = [pipeline EXCEPT !.pc = "completed"]
    /\ out' = pipeline.result
    /\ UNCHANGED <<op, inp, contractVars, commandVars, walletVars, raceVars>>

(***************************************************************************)
(* Specification of the pipeline: a registry of four templates, a wallet   *)
(* that is created and removed while no synchronous part runs.             *)
(***************************************************************************)
W_short == <<"s", "h", "o", "r", "t">>

W_m == <<"m", "(", ")">>

PipelineCommands ==
    [n \in {W_mint, W_short, W_token} |->
        CASE n = W_mint ->
                 QuickCommand(n, << <<"a">> >>,
                     Join(<<W_call, W_my_wallet, W_token, W_m, <<"$", "a">> >>))
          [] n = W_short ->
                 QuickCommand(n, <<>>, Join(<<W_call, W_my_wallet>>))
          [] n = W_token ->
                 QuickCommand(n, <<>>,
                     Join(<<W_send, W_my_wallet, W_constructor, W_m, W_1000>>))]

InitPipeline ==
    /\ contractsFile = Assign(EmptyMap, W_token, ContractInfo(W_token, AddrA, W_MyToken))
    /\ contractsReadable = TRUE
    /\ defaultContracts = EmptyMap
    /\ commandsFile = PipelineCommands
    /\ commandsReadable = TRUE
    /\ defaultQuickCommands = EmptyMap
    /\ op = "init"
    /\ inp = <<>>
    /\ out = Returned(Undefined)
    /\ InitWalletManager

\* Other operations of the process run only while no synchronous part of
\* the invocation does: before it, after it, or during its await.
NextPipeline ==
    \/ \E name \in {W_mint, W_short, W_token, W_nope},
          args \in {<<>>, << <<"x">> >>} :
           Begin_executeQuickCommand(name, args)
    \/ Step_expand
    \/ Step_parse
    \/ Step_resolve
    \/ Step_callContract
    \/ Step_submissionSettles
    \/ Step_complete
    \/ /\ pipeline.pc \in {"idle", "awaiting", "completed"}
       /\ \E saveKeystore \in BOOLEAN :
              Do_createWallet(W_my_wallet, <<"p">>, saveKeystore)
    \/ /\ pipeline.pc \in {"idle", "awaiting", "completed"}
       /\ Do_removeWallet(W_my_wallet)

SpecPipeline == InitPipeline /\ [][NextPipeline]_vars

\* The lookup, the arity check and the expansion of the invocation in
\* progress succeeded, and so did the reconstruction of the expanded text.
PipelinePrepared ==
    LET expanded == executeQuickCommand(pipeline.name, pipeline.args)
    IN /\ expanded.kind = "return"
       /\ parseQuickCommand(expanded.value).kind = "return"

\* C21: in every invocation of executeQuickCommand, callContract is invoked
\* at most once and only when lookup, arity check, expansion and
\* reconstruction all succeeded; no contract method call is started
\* without it, so none is started when one of them failed; and the
\* invocation has completed only when every started contract method call
\* has returned or thrown.
C21_SubmissionAfterPipeline ==
    /\ pipeline.calls <= 1
    /\ pipeline.started <= pipeline.calls
    /\ pipeline.calls > 0 => PipelinePrepared
    /\ (pipeline.pc # "idle" /\ ~PipelinePrepared) =>
           (pipeline.calls = 0 /\ pipeline.started = 0)
    /\ pipeline.pc = "completed" =>
           /\ pipeline.settled = pipeline.started
           /\ PipelinePrepared => pipeline.calls = 1

\* An invocation completed after its contract method call returned.
C21_Witness ==
    /\ pipeline.pc = "completed"
    /\ pipeline.started = 1
    /\ pipeline.settled = 1
    /\ pipeline.result.kind = "return"

(***************************************************************************)
(* Two processes adding to a registry.  addContract and addQuickCommand    *)
(* read the document (readFileSync), assign the entry in the object they   *)
(* read, and write it (writeFileSync); another process can run between     *)
(* the read and the write.  turn is the position of the process's write    *)
(* among the writes.                                                       *)
(***************************************************************************)
RaceEntry(registry, alias) ==
    IF registry = "contracts" THEN ContractInfo(alias, AddrA, Undefined)
    ELSE QuickCommand(alias, <<>>, <<"x">>)

RegistryFile(registry) ==
    IF registry = "contracts" THEN contractsFile ELSE commandsFile

\* const contracts = this.getContracts() / this.getQuickCommands()
Read_add(p, registry, alias) ==
    /\ processes[p].pc = "idle"
    /\ processes' = [processes EXCEPT
                        ![p] = [pc |-> "read", registry |-> registry,
                                alias |-> alias, doc |-> RegistryFile(registry),
                                turn |-> 0]]
    /\ op' = "read"
    /\ inp' = [registry |-> registry, alias |-> alias]
    /\ out' = Returned(Undefined)
    /\ UNCHANGED <<contractVars, commandVars, walletVars, pipeline, exportFiles>>

Written_Merge(p) ==
    Assign(RegistryFile(processes[p].registry), processes[p].alias,
           RaceEntry(processes[p].registry, processes[p].alias))

\* contracts.contracts[alias] = {...}; saveContracts(contracts): the
\* entries written are those of the object read, with the new entry.
Written(p) ==
    Assign(processes[p].doc, processes[p].alias,
           RaceEntry(processes[p].registry, processes[p].alias))

Write_add(p) ==
    /\ processes[p].pc = "read"
    /\ processes' = [processes EXCEPT
                        ![p].pc = "done",
                        ![p].turn = 1 + Cardinality({q \in Processes :
                                                       processes[q].pc = "done"})]
    /\ IF processes[p].registry = "contracts"
       THEN /\ contractsFile' = Written(p)
            /\ UNCHANGED <<contractsReadable, defaultContracts, commandVars>>
       ELSE /\ commandsFile' = Written(p)
            /\ UNCHANGED <<commandsReadable, defaultQuickCommands, contractVars>>
    /\ op' = "write"
    /\ inp' = [registry |-> processes[p].registry, alias |-> processes[p].alias]
    /\ out' = Returned(Undefined)
    /\ UNCHANGED <<walletVars, pipeline, exportFiles>>

RaceAliases == {W_token, W_mint, W_nope}

NextRace ==
    \/ \E p \in Processes, registry \in {"contracts", "commands"},
          alias \in RaceAliases : Read_add(p, registry, alias)
    \/ \E p \in Processes : Write_add(p)

SpecRace == Init /\ [][NextRace]_vars

\* Both processes have written, p first and q last, to the same registry.
WroteInOrder(p, q) ==
    /\ processes[p].pc = "done" /\ processes[p].turn = 1
    /\ processes[q].pc = "done" /\ processes[q].turn = 2
    /\ processes[p].registry = processes[q].registry

\* C22: when two processes have each added to the same registry file, the
\* persisted entries are those the last writer read plus its own entry; so
\* when the last writer read before the first writer wrote, under another
\* key, the first writer's entry is absent from the file.
C22_LastWriterWins ==
    \A p, q \in Processes :
        WroteInOrder(p, q) =>
            /\ RegistryFile(processes[q].registry) = Written(q)
            /\ (/\ processes[p].alias # processes[q].alias
                /\ ~HasOwn(processes[q].doc, processes[p].alias))
               => ~HasOwn(RegistryFile(processes[q].registry), processes[p].alias)

\* The lost update: both adds returned, and the first writer's entry is
\* not in the file.
C22_Witness ==
    \E p, q \in Processes :
        /\ WroteInOrder(p, q)
        /\ processes[p].alias # processes[q].alias
        /\ ~HasOwn(RegistryFile(processes[q].registry), processes[p].alias)

(***************************************************************************)
(* Specification of the wallet operations of one WalletManager, and of     *)
(* the next WalletManager constructed on the files it leaves.              *)
(***************************************************************************)
WalletAliases == {W_my_wallet, W_nope}

Passwords == {<<"p">>, <<"q">>}

ImportedConfigs ==
    {[keystoreDir |-> dir, defaultAccount |-> Undefined] :
         dir \in KeystoreDirs \cup {Undefined}}

NextWallet ==
    \/ \E alias \in WalletAliases, password \in Passwords,
          saveKeystore \in BOOLEAN :
           Do_createWallet(alias, password, saveKeystore)
    \/ \E alias \in WalletAliases, password \in Passwords :
           Do_importWallet(alias, password, TRUE)
    \/ \E alias \in WalletAliases, password \in Passwords :
           Do_loadWallet(alias, password)
    \/ \E alias \in WalletAliases : Do_removeWallet(alias)
    \/ \E alias \in WalletAliases, oldPassword, newPassword \in Passwords :
           Do_updateWalletPassword(alias, oldPassword, newPassword)
    \/ Do_newWalletManager

SpecWallet == Init /\ [][NextWallet]_vars

(***************************************************************************)
(* Specification of the operations that change the loaded wallets, the     *)
(* wallet-info map and the keystore directory of one WalletManager.        *)
(***************************************************************************)
NextKeystoreDir ==
    \/ \E alias \in WalletAliases, saveKeystore \in BOOLEAN :
           Do_createWallet(alias, <<"p">>, saveKeystore)
    \/ \E alias \in WalletAliases : Do_importWallet(alias, <<"p">>, TRUE)
    \/ \E alias \in WalletAliases : Do_loadWallet(alias, <<"p">>)
    \/ \E alias \in WalletAliases : Do_removeWallet(alias)
    \/ \E alias \in WalletAliases : Do_connectToProvider(alias)
    \/ \E newDir \in KeystoreDirs : Do_updateKeystoreDir(newDir)
    \/ \E importedConfig \in ImportedConfigs : Do_importConfig(importedConfig)
    \/ Do_resetConfig

SpecKeystoreDir == Init /\ [][NextKeystoreDir]_vars

\* The password the keystore of alias is encrypted with at present;
\* Undefined when the wallet has no keystore file.
CurrentPassword(alias) ==
    IF /\ HasOwn(walletInfo, alias)
       /\ walletInfo[alias].keystorePath # Undefined
       /\ HasOwn(keystoreFiles.files, walletInfo[alias].keystorePath)
    THEN keystoreFiles.files[walletInfo[alias].keystorePath].password
    ELSE Undefined

\* C23: loadWallet(alias, password) returns the wallet only when password
\* is the password the keystore of alias is encrypted with; with any other
\* password it throws and leaves the loaded wallets as they were.
C23_LoadRequiresPassword ==
    [][op' = "loadWallet" =>
          IF inp'.password = CurrentPassword(inp'.alias)
          THEN TRUE
          ELSE out'.kind = "throw" /\ wallets' = wallets]_vars

\* C26: updateWalletPassword(alias, oldPassword, newPassword) writes the
\* keystore only when oldPassword is the password the keystore of alias is
\* encrypted with; with any other oldPassword the keystore files are left
\* as they were.
C26_UpdateRequiresOldPassword ==
    [][op' = "updateWalletPassword" =>
          (inp'.oldPassword # CurrentPassword(inp'.alias)
               => keystoreFiles' = keystoreFiles)]_vars

\* C27: every alias with a loaded wallet has a wallet-info entry.
C27_LoadedWalletsHaveInfo ==
    \A alias \in DOMAIN wallets : HasOwn(walletInfo, alias)

\* C28: the wallet-info map in memory is the content of wallet-info.json
\* of the configured keystore directory, and is empty when that file does
\* not exist.
C28_WalletInfoIsOfKeystoreDir ==
    walletInfo = IF walletInfoFiles[keystoreDir].exists
                 THEN walletInfoFiles[keystoreDir].data
                 ELSE EmptyMap

(***************************************************************************)
(* resolveAddress applied to the result of resolveAddress, as callContract *)
(* does with the address executeQuickCommand resolved.                     *)
(***************************************************************************)
\* resolveAddress(value) where value need not be a string:
\* undefined.startsWith throws a TypeError.
resolveAddressOf(value) ==
    IF value = Undefined THEN Thrown("TypeError")
    ELSE Returned(resolveAddress(value))

\* C24: resolving the result of resolveAddress again gives that result, in
\* every registry state reached by addContract, updateContract and
\* removeContract.
C24_ResolveIdempotent ==
    [][op' = "resolveAddress" => resolveAddressOf(out'.value) = out']_vars

(***************************************************************************)
(* The 'quick call' action: the wallet alias taken from the expanded       *)
(* command, for which the password is asked and the wallet loaded.         *)
(***************************************************************************)
\* expandedCommand.split(' ')
RECURSIVE split(_)
split(s) ==
    LET spaces == {i \in 1..Len(s) : s[i] = " "} IN
    IF spaces = {} THEN <<s>>
    ELSE LET i == CHOOSE k \in spaces : \A l \in spaces : k <= l
         IN <<SubSeq(s, 1, i - 1)>> \o split(SubSeq(s, i + 1, Len(s)))

\* for (let i = 0; i < parts.length - 1; i++)
\*     if (parts[i] === 'call' || parts[i] === 'send') { ...; break; }
walletAlias(expandedCommand) ==
    LET parts == split(expandedCommand)
        verbs == {i \in 1..(Len(parts) - 1) :
                      parts[i] = W_call \/ parts[i] = W_send}
    IN IF verbs = {} THEN <<>>
       ELSE parts[(CHOOSE i \in verbs : \A j \in verbs : i <= j) + 1]

Do_quickCall_walletAlias(expandedCommand) ==
    /\ op' = "walletAlias"
    /\ inp' = [command |-> expandedCommand]
    /\ out' = Returned(walletAlias(expandedCommand))
    /\ UNCHANGED <<contractVars, commandVars, managerVars>>

\* One extraction per behaviour: the expanded text is the input.
NextQuickCall ==
    /\ op = "init"
    /\ \E command \in ParseCommands : Do_quickCall_walletAlias(command)

SpecQuickCall == InitParse /\ [][NextQuickCall]_vars

\* C25: for every expanded command that parseQuickCommand accepts, the
\* wallet alias the quick call action extracts is the alias that
\* parseQuickCommand returns.
C25_UnlockedWalletIsSigner ==
    (op = "walletAlias" /\ parseQuickCommand(inp.command).kind = "return")
        => out.value = parseQuickCommand(inp.command).value.alias

(***************************************************************************)
(* The commands 'config set-default-account', 'create', 'import' and       *)
(* 'remove'.  Every command runs in a process of its own, on the           *)
(* WalletManager that initWalletManager constructs from the files.         *)
(***************************************************************************)
\* initWalletManager(): new WalletManager() in a process without one.
initWalletManager ==
    [wallets |-> EmptyMap,
     walletInfo |-> IF walletInfoFiles[configFile.keystoreDir].exists
                    THEN walletInfoFiles[configFile.keystoreDir].data
                    ELSE EmptyMap,
     keystoreDir |-> configFile.keystoreDir]

\* ConfigManager.updateDefaultAccount(alias): the default account of the
\* configuration file becomes alias.
updateDefaultAccount(alias) ==
    configFile' = [configFile EXCEPT !.defaultAccount = alias]

\* ConfigManager.getDefaultAccount(): the default account of the
\* configuration file, undefined when none was set.
getDefaultAccount == configFile.defaultAccount

\* The process ends with the manager it was given, nothing written.
CliUntouched(wm) ==
    /\ wallets' = wm.wallets
    /\ walletInfo' = wm.walletInfo
    /\ keystoreDir' = wm.keystoreDir
    /\ UNCHANGED <<walletInfoFiles, keystoreFiles>>

Cli_setDefaultAccount(alias) ==
    LET wm == initWalletManager IN
    /\ op' = "set-default-account"
    /\ inp' = [alias |-> alias]
    /\ CliUntouched(wm)
    /\ IF ~HasOwn(wm.walletInfo, alias)
       THEN /\ out' = Rejected("WalletNotFound")
            /\ UNCHANGED configFile
       ELSE /\ out' = Returned(Undefined)
            /\ updateDefaultAccount(alias)
    /\ UNCHANGED <<contractVars, commandVars, pipeline, raceVars>>

\* create <alias> and import <alias> --private-key: the wallet is
\* registered by createWallet / importWallet of the new manager.
Cli_register(command, alias, key, password, saveKeystore) ==
    LET wm == initWalletManager
        serial == keystoreFiles.created + 1
        keystorePath == <<wm.keystoreDir, alias, serial>>
        info == WalletInfo(alias, key,
                           IF saveKeystore THEN keystorePath ELSE Undefined)
    IN /\ keystoreFiles.created < MaxKeystores
       /\ op' = command
       /\ inp' = [alias |-> alias, password |-> password]
       /\ IF HasOwn(wm.walletInfo, alias)
          THEN /\ out' = Rejected("AlreadyExists")
               /\ CliUntouched(wm)
          ELSE /\ out' = Returned(ManagedWallet(key))
               /\ keystoreFiles' =
                      [created |-> serial,
                       files |-> IF saveKeystore
                                 THEN Assign(keystoreFiles.files, keystorePath,
                                             encrypt(ManagedWallet(key), password))
                                 ELSE keystoreFiles.files]
               /\ wallets' = Assign(wm.wallets, alias, ManagedWallet(key))
               /\ walletInfo' = Assign(wm.walletInfo, alias, info)
               /\ keystoreDir' = wm.keystoreDir
               /\ walletInfoFiles' =
                      [walletInfoFiles EXCEPT
                          ![wm.keystoreDir] =
                              [exists |-> TRUE,
                               data |-> Assign(wm.walletInfo, alias, info)]]
       /\ UNCHANGED <<configFile, contractVars, commandVars, pipeline, raceVars>>

Cli_create(alias, password, saveKeystore) ==
    Cli_register("create", alias, keystoreFiles.created + 1, password, saveKeystore)

Cli_import(alias, password, saveKeystore) ==
    Cli_register("import", alias, 0, password, saveKeystore)

\* The keystore files of the wallets of info whose alias is in aliases.
KeystorePathsOf(info, aliases) ==
    {info[a].keystorePath : a \in aliases \cap DOMAIN info}

\* removeWallet for every alias of aliases, on the new manager.
CliRemoved(wm, aliases) ==
    LET remaining == [a \in DOMAIN wm.walletInfo \ aliases |-> wm.walletInfo[a]]
    IN /\ wallets' = wm.wallets
       /\ walletInfo' = remaining
       /\ keystoreDir' = wm.keystoreDir
       /\ keystoreFiles' =
              [keystoreFiles EXCEPT
                  !.files = [path \in DOMAIN @ \
                                 KeystorePathsOf(wm.walletInfo, aliases) |-> @[path]]]
       /\ walletInfoFiles' =
              [walletInfoFiles EXCEPT
                  ![wm.keystoreDir] = [exists |-> TRUE, data |-> remaining]]

\* remove <alias> [--force]
Cli_remove(alias, force) ==
    LET wm == initWalletManager IN
    /\ op' = "remove"
    /\ inp' = [alias |-> alias, force |-> force, all |-> FALSE]
    /\ IF ~HasOwn(wm.walletInfo, alias)
       THEN /\ out' = Rejected("WalletNotFound")
            /\ CliUntouched(wm)
       ELSE IF ~force
       THEN /\ out' = Rejected("UseForce")
            /\ CliUntouched(wm)
       ELSE /\ out' = Returned(TRUE)
            /\ CliRemoved(wm, {alias})
    /\ UNCHANGED <<configFile, contractVars, commandVars, pipeline, raceVars>>

\* remove --all [--force]
Cli_removeAll(force) ==
    LET wm == initWalletManager IN
    /\ op' = "remove"
    /\ inp' = [alias |-> Undefined, force |-> force, all |-> TRUE]
    /\ IF DOMAIN wm.walletInfo = {}
       THEN /\ out' = Rejected("NoWallets")
            /\ CliUntouched(wm)
       ELSE IF ~force
       THEN /\ out' = Rejected("UseForce")
            /\ CliUntouched(wm)
       ELSE /\ out' = Returned(TRUE)
            /\ CliRemoved(wm, DOMAIN wm.walletInfo)
    /\ UNCHANGED <<configFile, contractVars, commandVars, pipeline, raceVars>>

NextCli ==
    \/ \E alias \in WalletAliases : Cli_setDefaultAccount(alias)
    \/ \E alias \in WalletAliases, saveKeystore \in BOOLEAN :
           Cli_create(alias, <<"p">>, saveKeystore)
    \/ \E alias \in WalletAliases, saveKeystore \in BOOLEAN :
           Cli_import(alias, <<"p">>, saveKeystore)
    \/ \E alias \in WalletAliases, force \in BOOLEAN : Cli_remove(alias, force)
    \/ \E force \in BOOLEAN : Cli_removeAll(force)

SpecCli == Init /\ [][NextCli]_vars

\* C29: the default account, when set, names a wallet that exists
\* (hasWallet is true for it in the next command).
C29_DefaultAccountExists ==
    getDefaultAccount # Undefined =>
        HasOwn(initWalletManager.walletInfo, getDefaultAccount)

(***************************************************************************)
(* Export and import of the two registries.  A parsed file is a record:    *)
(* type is the kind of value its entries field ("contracts" or             *)
(* "commands") holds, and entries the mapping when it is an object; an     *)
(* array holds no entry.                                                   *)
(***************************************************************************)
Document(type, entries) == [type |-> type, entries |-> entries]

\* Files that no export has written: the entries field is an array, a
\* string, or missing.
ForeignDocuments ==
    {Document(type, EmptyMap) : type \in {"array", "string", "undefined"}}

\* !(!imported.contracts || typeof imported.contracts !== 'object'):
\* typeof is 'object' for an object and for an array, and both are truthy.
hasEntriesObject(document) == document.type \in {"object", "array"}

Do_exportContracts ==
    /\ op' = "exportContracts"
    /\ inp' = <<>>
    /\ out' = Returned(Undefined)
    /\ exportFiles' = [exportFiles EXCEPT
                          !.contracts = [exists |-> TRUE, data |-> getContracts]]
    /\ UNCHANGED <<contractVars, commandVars, walletVars, pipeline, processes>>

Do_exportQuickCommands ==
    /\ op' = "exportQuickCommands"
    /\ inp' = <<>>
    /\ out' = Returned(Undefined)
    /\ exportFiles' = [exportFiles EXCEPT
                          !.commands = [exists |-> TRUE, data |-> getQuickCommands]]
    /\ UNCHANGED <<contractVars, commandVars, walletVars, pipeline, processes>>

\* importContracts(filePath): filePath is the exported file ("export") or
\* a file with the document foreign ("foreign").
Do_importContracts(filePath, foreign) ==
    LET importedContracts ==
            IF filePath = "export"
            THEN Document("object", exportFiles.contracts.data)
            ELSE foreign
    IN /\ op' = "importContracts"
       /\ inp' = [filePath |-> filePath, document |-> importedContracts]
       /\ IF filePath = "export" /\ ~exportFiles.contracts.exists
          THEN /\ out' = Thrown("FileNotFound")
               /\ UNCHANGED contractVars
          ELSE IF ~hasEntriesObject(importedContracts)
          THEN /\ out' = Thrown("FailedToImport")
               /\ UNCHANGED contractVars
          ELSE /\ out' = Returned(Undefined)
               /\ contractsFile' = importedContracts.entries
               /\ contractsReadable' = TRUE
               /\ UNCHANGED defaultContracts
       /\ UNCHANGED <<commandVars, managerVars>>

Do_importQuickCommands(filePath, foreign) ==
    LET importedCommands ==
            IF filePath = "export"
            THEN Document("object", exportFiles.commands.data)
            ELSE foreign
    IN /\ op' = "importQuickCommands"
       /\ inp' = [filePath |-> filePath, document |-> importedCommands]
       /\ IF filePath = "export" /\ ~exportFiles.commands.exists
          THEN /\ out' = Thrown("FileNotFound")
               /\ UNCHANGED commandVars
          ELSE IF ~hasEntriesObject(importedCommands)
          THEN /\ out' = Thrown("FailedToImport")
               /\ UNCHANGED commandVars
          ELSE /\ out' = Returned(Undefined)
               /\ commandsFile' = importedCommands.entries
               /\ commandsReadable' = TRUE
               /\ UNCHANGED defaultQuickCommands
       /\ UNCHANGED <<contractVars, managerVars>>

NextExport ==
    \/ \E alias \in {W_token, W_nope} : Do_addContract(alias, AddrA, Undefined)
    \/ Do_updateContract(W_token, [address |-> AddrB, name |-> Undefined])
    \/ \E alias \in {W_token, W_nope} : Do_removeContract(alias)
    \/ Do_resetContracts
    \/ Do_exportContracts
    \/ \E filePath \in {"export", "foreign"}, foreign \in ForeignDocuments :
           Do_importContracts(filePath, foreign)
    \/ \E name \in {W_mint, W_nope} : Do_addQuickCommand(name, <<>>, <<"x">>)
    \/ \E name \in {W_mint, W_nope} : Do_removeQuickCommand(name)
    \/ Do_resetQuickCommands
    \/ Do_exportQuickCommands
    \/ \E filePath \in {"export", "foreign"}, foreign \in ForeignDocuments :
           Do_importQuickCommands(filePath, foreign)

SpecExport == Init /\ [][NextExport]_vars

\* An import of the exported file makes the registry's entries those of
\* the exported document, whatever was done to the registry in between.
ImportRestoresExport ==
    /\ (op' = "importContracts" /\ inp'.filePath = "export"
            /\ exportFiles.contracts.exists)
       => out'.kind = "return" /\ contractsFile' = exportFiles.contracts.data
    /\ (op' = "importQuickCommands" /\ inp'.filePath = "export"
            /\ exportFiles.commands.exists)
       => out'.kind = "return" /\ commandsFile' = exportFiles.commands.data

\* An import of a file whose entries field is not an object fails and
\* leaves the registry as it was.
ImportRejectsNonObject ==
    /\ (op' = "importContracts" /\ inp'.document.type # "object")
       => out'.kind = "throw" /\ contractVars' = contractVars
    /\ (op' = "importQuickCommands" /\ inp'.document.type # "object")
       => out'.kind = "throw" /\ commandVars' = commandVars

\* C30: importing the file an export wrote makes the registry's entries
\* exactly those of the exported document, after any add, update, remove
\* or reset in between; an import of a file without an entries object
\* fails and leaves the registry unchanged.
C30_ExportImportRoundTrip ==
    [][ImportRestoresExport /\ ImportRejectsNonObject]_vars

====
